---- MODULE Spec2Model ----
\* Capture-and-batch controller of ScreenSHotAgent.py: the polling main loop,
\* take_screenshot, process_screenshots and the three collaborators it calls
\* (image delivery, analysis, text delivery with chunking).
EXTENDS Integers, Sequences, FiniteSets, TLC

\* ---------------------------------------------------------------- bounds
\* Captures made during one process run.
MaxCaptures == 2
\* The clock (int(time.time())) runs 0..MaxTime; captures read it below MaxTime.
MaxTime == 2
\* The analysis text is long enough for up to MaxChunks + 1 parts.
MaxChunks == 2

\* ------------------------------------------------------- program constants
max_length == 4000

\* ------------------------------------------------------------------ state
VARIABLES
  pc,                \* position of the single thread in the script
  is_collecting,     \* global flag, line 103
  screenshots,       \* global list of base64 images, line 97
  screenshot_paths,  \* global list of file paths, line 100
  capsDown,          \* keyboard.is_pressed('caps lock')
  shiftDown,         \* keyboard.is_pressed('right shift')
  now,               \* int(time.time())
  i,                 \* loop index of send_images_to_telegram / send_text_to_telegram
  analysis,          \* local of process_screenshots, line 437
  summary,           \* local of process_screenshots, lines 440-447
  chunks,            \* local of send_text_to_telegram, line 281
  calls,             \* history: external calls made by the finalize in progress
  fin,               \* history: the two lists as they were when finalize started
  cap,               \* history: number of take_screenshot calls of the run
  sessionFirst,      \* history: the number of the session's first capture
  failed,            \* history: failed take_screenshot calls of the session
  last,              \* history: outcome of the latest take_screenshot call
  files,             \* history: names of the image files written during the run
  capsFired,         \* history: toggles fired by the current caps lock press
  shiftFired,        \* history: captures fired by the current right shift press
  shiftEdge,         \* history: is_collecting at the last right shift press
  delivered,         \* history: captures whose image got a delivery attempt
  analysed           \* history: captures whose image was put in an analysis call

vars == <<pc, is_collecting, screenshots, screenshot_paths, capsDown, shiftDown,
          now, i, analysis, summary, chunks, calls, fin, cap, sessionFirst,
          failed, last, files, capsFired, shiftFired, shiftEdge, delivered,
          analysed>>

keys == <<capsDown, shiftDown>>
lists == <<screenshots, screenshot_paths>>
locals == <<i, analysis, summary, chunks>>
captures == <<cap, sessionFirst, failed, last, files>>
served == <<delivered, analysed>>
history == <<calls, fin, captures, capsFired, shiftFired, shiftEdge, served>>

Min(a, b) == IF a < b THEN a ELSE b

NoText == [kind |-> "none", len |-> 0]
NoSummary == [count |-> 0, body |-> NoText, len |-> 0]
NoFin == [images |-> <<>>, paths |-> <<>>]

\* ------------------------------------------------------------------ text
\* A text is held as the runs of character positions it is made of: Str(a, b)
\* is the text of characters a..b of the message, Cat is concatenation.
Str(lo, hi) == IF lo > hi THEN <<>> ELSE << <<lo, hi>> >>

Cat(s, t) ==
  IF s = <<>> THEN t
  ELSE IF t = <<>> THEN s
  ELSE IF s[Len(s)][2] + 1 = t[1][1]
       THEN SubSeq(s, 1, Len(s) - 1) \o << <<s[Len(s)][1], t[1][2]>> >> \o Tail(t)
       ELSE s \o t

\* message[start:stop] of a message of L characters (0-based, stop exclusive).
Slice(L, start, stop) == Str(start + 1, Min(stop, L))

\* list(range(start, stop, step))
RECURSIVE Range(_, _, _)
Range(start, stop, step) ==
  IF start >= stop THEN <<>> ELSE <<start>> \o Range(start + step, stop, step)

\* Mutant of SplitMessage: only the full chunks, the remainder is lost.
SplitMessageFullOnly(L) ==
  [k \in 1..(L \div max_length) |-> Slice(L, (k - 1) * max_length, k * max_length)]

\* line 281: [message[i:i+max_length] for i in range(0, len(message), max_length)]
SplitMessage(L) ==
  LET starts == Range(0, L, max_length)
  IN [k \in 1..Len(starts) |-> Slice(L, starts[k], starts[k] + max_length)]

\* len(str(n)) for the batch sizes of the model
Digits(n) == IF n < 10 THEN 1 ELSE IF n < 100 THEN 2 ELSE 3

\* lines 440-446: the length of the summary before the analysis text
SummaryPrefixLen(n) == 233 + Digits(n)

\* lines 440-447
ComposeSummary(n, a) == [count |-> n, body |-> a, len |-> SummaryPrefixLen(n) + a.len]

\* Lengths of the analysis text the collaborator may return: a short one, and
\* those that put the summary at and just past each multiple of max_length.
AnalysisLens ==
  {0} \cup {k * max_length + d - SummaryPrefixLen(1) : k \in 1..MaxChunks, d \in {0, 1}}

\* ------------------------------------------------------------- capture
CaptureOutcomes == {"ok", "grab", "read"}

\* Mutant of ScreenshotName: the name has no batch position.
ScreenshotNameNoSeq(ts, batch) == <<ts, 1>>

\* line 142-143: f"screenshot_{timestamp}_{len(screenshots) + 1}.png"
ScreenshotName(ts, batch) == <<ts, Len(batch) + 1>>

\* Mutant of take_screenshot: the path returned is not the one written to.
take_screenshotOtherPath(batch, k, o) ==
  LET filepath == ScreenshotName(now, batch)
  IN [img |-> IF o = "ok" THEN [cap |-> k, file |-> filepath] ELSE <<>>,
      path |-> IF o = "ok" THEN <<now, Len(batch)>> ELSE <<>>,
      ok |-> o = "ok",
      written |-> IF o = "grab" THEN {} ELSE {filepath}]

\* take_screenshot, lines 136-160, as capture number k of the run: the image is
\* the content of the file it wrote, read back (lines 152-153). Outcome "grab"
\* is an exception before the file is written, "read" one after it; both are
\* answered with (None, None, None).
take_screenshot(batch, k, o) ==
  LET filepath == ScreenshotName(now, batch)
  IN [img |-> IF o = "ok" THEN [cap |-> k, file |-> filepath] ELSE <<>>,
      path |-> IF o = "ok" THEN filepath ELSE <<>>,
      ok |-> o = "ok",
      written |-> IF o = "grab" THEN {} ELSE {filepath}]

CanCapture == cap < MaxCaptures /\ now < MaxTime

\* Mutant of Stored: the image is never kept.
StoredNever(batch, r) == batch

\* lines 503-504, 529-530: if base64_img: screenshots.append(base64_img)
Stored(batch, r) == IF r.ok THEN Append(batch, r.img) ELSE batch

\* Mutant of StoredPath: the path is kept whether or not the capture succeeded.
StoredPathAlways(paths, r) == Append(paths, r.path)

\* lines 503-505, 529-531: if base64_img: screenshot_paths.append(filepath)
StoredPath(paths, r) == IF r.ok THEN Append(paths, r.path) ELSE paths

\* Mutant of NothingToProcess: the empty list is not looked at.
NothingToProcessNever(batch) == FALSE

\* line 425: if not screenshots
NothingToProcess(batch) == batch = <<>>

\* Mutant of ImageAt: the paths are walked from the end.
ImageAtReversed(paths, k) == paths[Len(paths) + 1 - k]

\* line 241: for i, image_path in enumerate(image_paths, 1)
ImageAt(paths, k) == paths[k]

\* Mutant of AfterImage: a failed delivery ends the loop.
AfterImageStopOnFail(k, n, ok) ==
  IF ok /\ k + 1 <= n THEN "sendImage" ELSE "analyze"

\* lines 241, 246-250: the loop goes on to the next path after success and failure
AfterImage(k, n, ok) == IF k + 1 <= n THEN "sendImage" ELSE "analyze"

\* Mutant of RateLimit: the loop sleeps after every attempt.
RateLimitAlways(ok) == 1

\* lines 246-250: time.sleep(1) after a successful send, none after a failed one
RateLimit(ok) == IF ok THEN 1 ELSE 0

\* Mutant of AnalysisImages: only the first image is put in the request.
AnalysisImagesFirstOnly(batch) == SubSeq(batch, 1, 1)

\* lines 362-368: every image of the list is added to the one request
AnalysisImages(batch) == batch

\* Mutant of AfterAnalyze: a failed analysis ends process_screenshots.
AfterAnalyzeAbort(o) == IF o = "ok" THEN "sendText" ELSE "done"

\* lines 383-391, 437-450: analyze_with_google_gemini returns a string on every
\* path, and process_screenshots goes on to the summary
AfterAnalyze(o) == "sendText"

\* The numbers of the captures that made the images of a list.
Captured(images) == [k \in 1..Len(images) |-> images[k].cap]

Call(kind, pos, total, item, outcome, slept) ==
  [kind |-> kind, pos |-> pos, total |-> total, item |-> item,
   outcome |-> outcome, slept |-> slept]

\* ------------------------------------------------------------- actions
Init ==
  /\ pc = "poll"
  /\ is_collecting = FALSE
  /\ screenshots = <<>>
  /\ screenshot_paths = <<>>
  /\ capsDown = FALSE
  /\ shiftDown = FALSE
  /\ now = 0
  /\ i = 0
  /\ analysis = NoText
  /\ summary = NoSummary
  /\ chunks = <<>>
  /\ calls = <<>>
  /\ fin = NoFin
  /\ cap = 0
  /\ sessionFirst = 0
  /\ failed = 0
  /\ last = "none"
  /\ files = {}
  /\ capsFired = 0
  /\ shiftFired = 0
  /\ shiftEdge = FALSE
  /\ delivered = <<>>
  /\ analysed = <<>>

\* lines 490-506: caps lock seen while idle
StartCollection ==
  /\ pc = "poll"
  /\ capsDown
  /\ ~is_collecting
  /\ CanCapture
  /\ \E o \in CaptureOutcomes :
       LET r == take_screenshot(<<>>, cap + 1, o)
       IN /\ screenshots' = Stored(<<>>, r)
          /\ screenshot_paths' = StoredPath(<<>>, r)
          /\ files' = files \cup r.written
          /\ last' = o
          /\ failed' = IF r.ok THEN 0 ELSE 1
  /\ cap' = cap + 1
  /\ sessionFirst' = cap + 1
  /\ is_collecting' = TRUE
  /\ capsFired' = capsFired + 1
  /\ pc' = "waitCapsStart"
  /\ UNCHANGED <<keys, now, locals, calls, fin, served, shiftFired, shiftEdge>>

\* Mutant of WaitCapsStart: the loop does not wait for the release.
WaitCapsStartNoWait ==
  /\ pc = "waitCapsStart"
  /\ pc' = "sleep"
  /\ UNCHANGED <<is_collecting, lists, keys, now, locals, history>>

\* lines 508-510
WaitCapsStart ==
  /\ pc = "waitCapsStart"
  /\ ~capsDown
  /\ pc' = "sleep"
  /\ UNCHANGED <<is_collecting, lists, keys, now, locals, history>>

\* Mutant of CaptureOne: right shift is not tested against is_collecting.
CaptureOneWhileIdle ==
  /\ pc = "poll"
  /\ ~capsDown
  /\ shiftDown
  /\ CanCapture
  /\ \E o \in CaptureOutcomes :
       LET r == take_screenshot(screenshots, cap + 1, o)
       IN /\ screenshots' = Stored(screenshots, r)
          /\ screenshot_paths' = StoredPath(screenshot_paths, r)
          /\ files' = files \cup r.written
          /\ last' = o
          /\ failed' = IF r.ok THEN failed ELSE failed + 1
  /\ cap' = cap + 1
  /\ shiftFired' = shiftFired + 1
  /\ pc' = "waitShift"
  /\ UNCHANGED <<is_collecting, keys, now, locals, calls, fin, served, sessionFirst, capsFired,
                 shiftEdge>>

\* Mutant of CaptureOne: a failed capture ends the collection.
CaptureOneStopsOnFailure ==
  /\ pc = "poll"
  /\ ~capsDown
  /\ shiftDown
  /\ is_collecting
  /\ CanCapture
  /\ \E o \in CaptureOutcomes :
       LET r == take_screenshot(screenshots, cap + 1, o)
       IN /\ screenshots' = Stored(screenshots, r)
          /\ screenshot_paths' = StoredPath(screenshot_paths, r)
          /\ files' = files \cup r.written
          /\ last' = o
          /\ failed' = IF r.ok THEN failed ELSE failed + 1
          /\ is_collecting' = r.ok
  /\ cap' = cap + 1
  /\ shiftFired' = shiftFired + 1
  /\ pc' = "waitShift"
  /\ UNCHANGED <<keys, now, locals, calls, fin, served, sessionFirst, capsFired, shiftEdge>>

\* lines 527-532: right shift seen while collecting (and caps lock not pressed)
CaptureOne ==
  /\ pc = "poll"
  /\ ~capsDown
  /\ shiftDown
  /\ is_collecting
  /\ CanCapture
  /\ \E o \in CaptureOutcomes :
       LET r == take_screenshot(screenshots, cap + 1, o)
       IN /\ screenshots' = Stored(screenshots, r)
          /\ screenshot_paths' = StoredPath(screenshot_paths, r)
          /\ files' = files \cup r.written
          /\ last' = o
          /\ failed' = IF r.ok THEN failed ELSE failed + 1
  /\ cap' = cap + 1
  /\ shiftFired' = shiftFired + 1
  /\ pc' = "waitShift"
  /\ UNCHANGED <<is_collecting, keys, now, locals, calls, fin, served, sessionFirst, capsFired,
                 shiftEdge>>

\* lines 534-536
WaitShift ==
  /\ pc = "waitShift"
  /\ ~shiftDown
  /\ pc' = "sleep"
  /\ UNCHANGED <<is_collecting, lists, keys, now, locals, history>>

\* lines 490, 527: neither branch is taken
NoKey ==
  /\ pc = "poll"
  /\ ~capsDown
  /\ ~(shiftDown /\ is_collecting)
  /\ pc' = "sleep"
  /\ UNCHANGED <<is_collecting, lists, keys, now, locals, history>>

\* line 540
LoopSleep ==
  /\ pc = "sleep"
  /\ pc' = "poll"
  /\ UNCHANGED <<is_collecting, lists, keys, now, locals, history>>

\* lines 512-517 and 422-433, 238-241: caps lock seen while collecting;
\* process_screenshots returns at once on an empty list (then line 518).
Submit ==
  /\ pc = "poll"
  /\ capsDown
  /\ is_collecting
  /\ capsFired' = capsFired + 1
  /\ fin' = [images |-> screenshots, paths |-> screenshot_paths]
  /\ calls' = <<>>
  /\ IF NothingToProcess(screenshots)
     THEN /\ is_collecting' = FALSE
          /\ pc' = "waitCapsSubmit"
          /\ i' = i
     ELSE /\ is_collecting' = is_collecting
          /\ i' = 1
          /\ pc' = IF 1 <= Len(screenshot_paths) THEN "sendImage" ELSE "analyze"
  /\ UNCHANGED <<lists, keys, now, analysis, summary, chunks, captures, served, shiftFired,
                 shiftEdge>>

\* lines 241-250 with send_image_to_telegram, lines 190-216
SendImage ==
  /\ pc = "sendImage"
  /\ \E ok \in BOOLEAN :
       /\ calls' = Append(calls, Call("image", i, Len(screenshot_paths),
                                      ImageAt(screenshot_paths, i),
                                      IF ok THEN "ok" ELSE "fail",
                                      RateLimit(ok)))
       /\ now' = Min(now + RateLimit(ok), MaxTime)
       /\ pc' = AfterImage(i, Len(screenshot_paths), ok)
  /\ delivered' = delivered \o Captured(<<screenshots[i]>>)
  /\ analysed' = analysed
  /\ i' = i + 1
  /\ UNCHANGED <<is_collecting, lists, keys, analysis, summary, chunks, fin, captures,
                 capsFired, shiftFired, shiftEdge>>

\* line 437 with analyze_with_google_gemini, lines 347-391
Analyze ==
  /\ pc = "analyze"
  /\ \E o \in {"ok", "status", "exception"} : \E n \in AnalysisLens :
       /\ o # "ok" => n = 0
       /\ analysis' = [kind |-> IF o = "ok" THEN "analysis"
                                ELSE IF o = "status" THEN "api_error"
                                ELSE "analysis_error",
                       len |-> n]
       /\ calls' = Append(calls, Call("analyze", 0, Len(AnalysisImages(screenshots)),
                                      AnalysisImages(screenshots), o, 0))
       /\ pc' = AfterAnalyze(o)
  /\ analysed' = analysed \o Captured(AnalysisImages(screenshots))
  /\ delivered' = delivered
  /\ UNCHANGED <<is_collecting, lists, keys, now, i, summary, chunks, fin, captures,
                 capsFired, shiftFired, shiftEdge>>

\* lines 440-450 and 273-281: the summary is composed and handed to
\* send_text_to_telegram, which splits it when it is longer than max_length
SendText ==
  /\ pc = "sendText"
  /\ LET s == ComposeSummary(Len(screenshots), analysis)
     IN /\ summary' = s
        /\ calls' = Append(calls, Call("text", 0, 0, s, "called", 0))
        /\ IF s.len > max_length
           THEN /\ chunks' = SplitMessage(s.len)
                /\ i' = 1
                /\ pc' = IF 1 <= Len(SplitMessage(s.len)) THEN "sendChunk" ELSE "done"
           ELSE /\ chunks' = chunks
                /\ i' = i
                /\ pc' = "sendDirect"
  /\ UNCHANGED <<is_collecting, lists, keys, now, analysis, fin, captures, served, capsFired,
                 shiftFired, shiftEdge>>

\* lines 284-294, and 308-310 when requests.post raises
SendChunk ==
  /\ pc = "sendChunk"
  /\ \E o \in {"ok", "status", "exception"} :
       IF o = "exception"
       THEN /\ calls' = Append(calls, Call("part", i, Len(chunks), chunks[i], o, 0))
            /\ pc' = "done"
            /\ UNCHANGED <<now, i>>
       ELSE /\ calls' = Append(calls, Call("part", i, Len(chunks), chunks[i], o, 1))
            /\ now' = Min(now + 1, MaxTime)
            /\ i' = i + 1
            /\ pc' = IF i + 1 <= Len(chunks) THEN "sendChunk" ELSE "done"
  /\ UNCHANGED <<is_collecting, lists, keys, analysis, summary, chunks, fin, captures, served,
                 capsFired, shiftFired, shiftEdge>>

\* lines 296-306, and 308-310 when requests.post raises
SendDirect ==
  /\ pc = "sendDirect"
  /\ \E o \in {"ok", "status", "exception"} :
       calls' = Append(calls, Call("part", 0, 0, Slice(summary.len, 0, summary.len), o, 0))
  /\ pc' = "done"
  /\ UNCHANGED <<is_collecting, lists, keys, now, i, analysis, summary, chunks, fin,
                 captures, served, capsFired, shiftFired, shiftEdge>>

\* Mutant of ProcessDone: the path list is not cleared.
ProcessDoneKeepsPaths ==
  /\ pc = "done"
  /\ screenshots' = <<>>
  /\ is_collecting' = FALSE
  /\ i' = 0
  /\ analysis' = NoText
  /\ summary' = NoSummary
  /\ chunks' = <<>>
  /\ pc' = "waitCapsSubmit"
  /\ UNCHANGED <<screenshot_paths, keys, now, history>>

\* Mutant of ProcessDone: the lists are not cleared and the state stays active.
ProcessDoneStaysActive ==
  /\ pc = "done"
  /\ i' = 0
  /\ analysis' = NoText
  /\ summary' = NoSummary
  /\ chunks' = <<>>
  /\ pc' = "waitCapsSubmit"
  /\ UNCHANGED <<is_collecting, lists, keys, now, history>>

\* lines 452-457 and 518
ProcessDone ==
  /\ pc = "done"
  /\ screenshots' = <<>>
  /\ screenshot_paths' = <<>>
  /\ is_collecting' = FALSE
  /\ i' = 0
  /\ analysis' = NoText
  /\ summary' = NoSummary
  /\ chunks' = <<>>
  /\ pc' = "waitCapsSubmit"
  /\ UNCHANGED <<keys, now, history>>

\* lines 520-522; the record of the finalize ends with the submit branch
WaitCapsSubmit ==
  /\ pc = "waitCapsSubmit"
  /\ ~capsDown
  /\ pc' = "sleep"
  /\ calls' = <<>>
  /\ fin' = NoFin
  /\ UNCHANGED <<is_collecting, lists, keys, now, locals, captures, served, capsFired,
                 shiftFired, shiftEdge>>

\* Mutant of Interrupt: the signal is honoured between loop iterations only.
InterruptAtPollOnly ==
  /\ pc = "poll"
  /\ pc' = "stopped"
  /\ UNCHANGED <<is_collecting, lists, keys, now, locals, history>>

\* lines 542-546: KeyboardInterrupt, raised wherever the thread is
Interrupt ==
  /\ pc # "stopped"
  /\ pc' = "stopped"
  /\ UNCHANGED <<is_collecting, lists, keys, now, locals, history>>

\* ---------------------------------------------------------- environment
PressCaps ==
  /\ pc # "stopped"
  /\ ~capsDown
  /\ capsDown' = TRUE
  /\ capsFired' = 0
  /\ UNCHANGED <<pc, is_collecting, lists, shiftDown, now, locals, calls, fin, captures, served,
                 shiftFired, shiftEdge>>

ReleaseCaps ==
  /\ pc # "stopped"
  /\ capsDown
  /\ capsDown' = FALSE
  /\ capsFired' = 0
  /\ UNCHANGED <<pc, is_collecting, lists, shiftDown, now, locals, calls, fin,
                 captures, served, shiftFired, shiftEdge>>

PressShift ==
  /\ pc # "stopped"
  /\ ~shiftDown
  /\ shiftDown' = TRUE
  /\ shiftFired' = 0
  /\ shiftEdge' = is_collecting
  /\ UNCHANGED <<pc, is_collecting, lists, capsDown, now, locals, calls, fin, captures, served,
                 capsFired>>

ReleaseShift ==
  /\ pc # "stopped"
  /\ shiftDown
  /\ shiftDown' = FALSE
  /\ shiftFired' = 0
  /\ shiftEdge' = FALSE
  /\ UNCHANGED <<pc, is_collecting, lists, capsDown, now, locals, calls, fin,
                 captures, served, capsFired>>

Tick ==
  /\ pc # "stopped"
  /\ now < MaxTime
  /\ now' = now + 1
  /\ UNCHANGED <<pc, is_collecting, lists, keys, locals, history>>

Next ==
  \/ StartCollection
  \/ WaitCapsStart
  \/ CaptureOne
  \/ WaitShift
  \/ NoKey
  \/ LoopSleep
  \/ Submit
  \/ SendImage
  \/ Analyze
  \/ SendText
  \/ SendChunk
  \/ SendDirect
  \/ ProcessDone
  \/ WaitCapsSubmit
  \/ Interrupt
  \/ PressCaps
  \/ ReleaseCaps
  \/ PressShift
  \/ ReleaseShift
  \/ Tick

Spec == Init /\ [][Next]_vars

\* ------------------------------------------------------------- claims
\* Positions inside process_screenshots, and the one right after it returned.
FinalizePcs == {"sendImage", "analyze", "sendText", "sendChunk", "sendDirect", "done"}
InFinalize == pc \in FinalizePcs
Returned == pc = "waitCapsSubmit"

CallsOf(kind) == SelectSeq(calls, LAMBDA c : c.kind = kind)

\* capture-one signals received since the toggle that started the session
Signals == cap - sessionFirst

\* C1 (as stated): when finalize starts, the Batch holds 1 + the number of
\* capture-one signals received while active.
C1_Original ==
  (InFinalize \/ Returned) => Len(fin.images) = 1 + Signals

\* C1 (amended): when finalize starts, the Batch holds 1 + the number of
\* capture-one signals received while active, less the captures of the session
\* (the initial one included) that failed.
C1_BatchSize ==
  (InFinalize \/ Returned) => Len(fin.images) = 1 + Signals - failed

C1_Witness ==
  /\ Returned
  /\ Signals = 1
  /\ failed = 1
  /\ Len(fin.images) = 1
  /\ last = "ok"

\* C2: once finalize has returned, the Batch and the path list are empty and
\* the state is idle, whatever the deliveries, the analysis and the text send did.
C2_ClearedAfterFinalize ==
  Returned => /\ screenshots = <<>>
              /\ screenshot_paths = <<>>
              /\ ~is_collecting

C2_Witness ==
  /\ Returned
  /\ Len(calls) = 4
  /\ calls[1].kind = "image" /\ calls[1].outcome = "fail"
  /\ calls[2].kind = "analyze" /\ calls[2].outcome = "exception"
  /\ calls[4].kind = "part" /\ calls[4].outcome = "exception"

\* C3: a finalize of an empty Batch makes no delivery, analysis or text call
\* (it never enters the steps that make them) and the state returns to idle.
C3_EmptyFinalize ==
  /\ InFinalize => fin.images # <<>>
  /\ (Returned /\ fin.images = <<>>) =>
       /\ calls = <<>>
       /\ ~is_collecting
       /\ screenshots = <<>>

C3_Witness ==
  /\ Returned
  /\ fin.images = <<>>
  /\ Signals = 0
  /\ failed = 1

\* C4: the j-th call of a finalize of n Shots, for j <= n, is the delivery of
\* the j-th path tagged j/n, and the analysis call is call number n + 1.
C4_DeliveryOrder ==
  \A j \in 1..Len(calls) :
    /\ calls[j].kind = "image" =>
         /\ j <= Len(fin.paths)
         /\ calls[j].pos = j
         /\ calls[j].total = Len(fin.paths)
         /\ calls[j].item = fin.paths[j]
    /\ calls[j].kind = "analyze" => j = Len(fin.paths) + 1

C4_Witness ==
  /\ pc = "sendText"
  /\ Len(fin.paths) = 2
  /\ calls[1].outcome = "fail"
  /\ calls[2].outcome = "ok"
  /\ calls[3].kind = "analyze"

AfterImages == pc \in {"analyze", "sendText", "sendChunk", "sendDirect", "done"}

\* Positions of a finalize at which the analysis call has returned.
AfterAnalysis == pc \in {"sendText", "sendChunk", "sendDirect", "done"}

\* Positions of a finalize at which the summary has been handed over.
AfterText == pc \in {"sendChunk", "sendDirect", "done"}

\* C6: when the delivery loop of a finalize of n Shots is over, n delivery
\* attempts were made, exactly one for each Shot, failed attempts included.
C6_OneAttemptPerShot ==
  (AfterImages \/ Returned) =>
    /\ Len(CallsOf("image")) = Len(fin.paths)
    /\ \A k \in 1..Len(fin.paths) :
         Cardinality({j \in 1..Len(calls) :
                        calls[j].kind = "image" /\ calls[j].pos = k}) = 1

C6_Witness ==
  /\ pc = "analyze"
  /\ Len(fin.paths) = 2
  /\ calls[1].outcome = "fail"
  /\ calls[2].outcome = "fail"

\* C7: a step in which take_screenshot fails leaves the state active and adds
\* nothing to either list: a failed capture-one leaves both lists as they were,
\* a failed initial capture leaves both empty.
C7_FailedCapture ==
  [][(cap' = cap + 1 /\ last' # "ok") =>
       /\ is_collecting'
       /\ IF pc' = "waitShift"
          THEN is_collecting /\ UNCHANGED <<screenshots, screenshot_paths>>
          ELSE screenshots' = <<>> /\ screenshot_paths' = <<>>]_vars

C7_Witness ==
  /\ pc = "waitShift"
  /\ last = "read"
  /\ failed = 1
  /\ Len(screenshots) = 1
  /\ Len(screenshot_paths) = 1
  /\ is_collecting

\* C8: no analysis call is made before the delivery loop is over, and once the
\* analysis call of a non-empty finalize has returned it is the only one and
\* its images are the whole Batch in batch order.
C8_OneAnalysisOfWholeBatch ==
  /\ pc \in {"sendImage", "analyze"} => CallsOf("analyze") = <<>>
  /\ (AfterAnalysis \/ (Returned /\ fin.images # <<>>)) =>
       /\ Len(CallsOf("analyze")) = 1
       /\ CallsOf("analyze")[1].item = fin.images
       /\ CallsOf("analyze")[1].total = Len(fin.images)

C8_Witness ==
  /\ Returned
  /\ Len(fin.images) = 2
  /\ calls[1].outcome = "fail"
  /\ calls[2].outcome = "ok"
  /\ calls[3].kind = "analyze"
  /\ Len(calls[3].item) = 2

\* The text analyze_with_google_gemini returns for each outcome of its request.
ResultKind(o) ==
  CASE o = "ok" -> "analysis"
    [] o = "status" -> "api_error"
    [] o = "exception" -> "analysis_error"

\* C9: once the summary of a non-empty finalize has been handed to the text
\* channel it is the only one, it is the call right after the analysis call,
\* it reports the Batch size, and it carries the analysis text when the
\* analysis succeeded and the error text when it failed.
C9_OneSummaryAfterAnalysis ==
  /\ pc \in {"sendImage", "analyze", "sendText"} => CallsOf("text") = <<>>
  /\ (AfterText \/ (Returned /\ fin.images # <<>>)) =>
       /\ Len(CallsOf("text")) = 1
       /\ calls[Len(fin.paths) + 1].kind = "analyze"
       /\ calls[Len(fin.paths) + 2].kind = "text"
       /\ calls[Len(fin.paths) + 2].item.count = Len(fin.images)
       /\ calls[Len(fin.paths) + 2].item.body.kind =
            ResultKind(calls[Len(fin.paths) + 1].outcome)
       /\ AfterText => calls[Len(fin.paths) + 2].item.body = analysis

C9_Witness ==
  /\ Returned
  /\ Len(fin.images) = 2
  /\ calls[3].outcome = "exception"
  /\ calls[4].kind = "text"
  /\ calls[4].item.body.kind = "analysis_error"
  /\ calls[4].item.count = 2

\* ceil(a / b)
Ceil(a, b) == (a + b - 1) \div b

\* The concatenation of a list of texts.
RECURSIVE Join(_)
Join(ts) == IF ts = <<>> THEN <<>> ELSE Cat(Head(ts), Join(Tail(ts)))

\* The part calls of the text send in progress.
Parts == CallsOf("part")

\* C10: a summary of L > max_length characters is split into ceil(L / max_length)
\* chunks whose concatenation is the summary; the j-th part sent is chunk j
\* under the header j/N; all N are sent when no send raises. A summary of at
\* most max_length characters is sent whole, in one call without a header.
C10_Chunking ==
  /\ (pc = "sendChunk" \/ (pc = "done" /\ chunks # <<>>)) =>
       /\ summary.len > max_length
       /\ Len(chunks) = Ceil(summary.len, max_length)
       /\ Join(chunks) = Str(1, summary.len)
       /\ \A j \in 1..Len(Parts) :
            /\ Parts[j].pos = j
            /\ Parts[j].total = Len(chunks)
            /\ Parts[j].item = chunks[j]
       /\ (pc = "done" /\ \A j \in 1..Len(Parts) : Parts[j].outcome # "exception")
            => Len(Parts) = Len(chunks)
  /\ (pc = "sendDirect" \/ (pc = "done" /\ chunks = <<>> /\ summary # NoSummary)) =>
       /\ summary.len <= max_length
       /\ pc = "sendDirect" => Parts = <<>>
       /\ pc = "done" =>
            /\ Len(Parts) = 1
            /\ Parts[1].pos = 0
            /\ Parts[1].total = 0
            /\ Parts[1].item = Str(1, summary.len)

C10_Witness ==
  /\ pc = "done"
  /\ summary.len = 2 * max_length + 1
  /\ Len(chunks) = 3
  /\ Len(Parts) = 3
  /\ Parts[3].item = Str(2 * max_length + 1, 2 * max_length + 1)

\* A summary of exactly max_length characters goes out whole.
C10_WitnessWhole ==
  /\ pc = "done"
  /\ summary.len = max_length
  /\ Len(Parts) = 1

\* C11: when the send of a message split into N parts is over, N send attempts
\* were made, whatever statuses the sends returned and whichever of them raised.
C11_AllPartsAttempted ==
  (pc = "done" /\ chunks # <<>>) => Len(Parts) = Len(chunks)

\* C12: a capture that writes its image file writes it under a name no earlier
\* capture of the run has written.
C12_FreshFileName ==
  [][(cap' = cap + 1 /\ last' # "grab") => files' # files]_vars

\* C13: whenever the state is idle the Batch and the path list are empty.
C13_IdleMeansEmpty ==
  ~is_collecting => /\ screenshots = <<>>
                    /\ screenshot_paths = <<>>

C13_Witness ==
  /\ pc = "poll"
  /\ ~is_collecting
  /\ Signals = 1
  /\ failed = 0
  /\ shiftDown

\* C14: is_collecting changes only in a step of the caps lock branch: where
\* the toggle is seen or where the finalize it started ends, which leaves it
\* idle whatever the calls returned; a capture-one step never changes it.
C14_StateChangesOnToggleOnly ==
  [][/\ is_collecting' # is_collecting => ((pc = "poll" /\ capsDown) \/ pc = "done")
     /\ (pc = "done" /\ pc' = "waitCapsSubmit") => ~is_collecting'
     /\ cap' = cap + 1 /\ pc' = "waitShift" => is_collecting' = is_collecting]_vars

C14_Witness ==
  /\ pc = "waitShift"
  /\ is_collecting
  /\ last = "grab"
  /\ Signals = 1

\* C16: a capture fired by the right shift press in progress belongs to a
\* press that began while the state was active.
C16_IdlePressIgnored ==
  (shiftDown /\ shiftFired > 0) => shiftEdge

NoDup(q) == \A a, b \in 1..Len(q) : a # b => q[a] # q[b]

\* C17: no Shot is shared across sessions: over the run every capture gets at
\* most one delivery attempt and is put in at most one analysis call, and every
\* image of the Batch was captured in the session in progress.
C17_NoShotShared ==
  /\ NoDup(delivered)
  /\ NoDup(analysed)
  /\ \A k \in 1..Len(screenshots) : screenshots[k].cap \in sessionFirst..cap

\* A second session has delivered and analysed its own capture after the first
\* session did the same with its own.
C17_Witness ==
  /\ pc = "done"
  /\ delivered = <<1, 2>>
  /\ analysed = <<1, 2>>
  /\ sessionFirst = 2
  /\ Len(screenshots) = 1

\* C18: within a session the paths of the Batch are pairwise distinct, whatever
\* captures failed and also when captures fall into the same second.
C18_DistinctPaths ==
  NoDup(screenshot_paths)

\* Two captures of one session in the same second, both stored.
C18_Witness ==
  /\ Len(screenshot_paths) = 2
  /\ screenshot_paths[1][1] = screenshot_paths[2][1]
  /\ is_collecting

\* C19: the interrupt can arrive at every point of the loop, it stops the
\* controller, nothing is done after it, and the step that stops the controller
\* makes no call and leaves the pending Batch as it is.
C19_InterruptStops ==
  [][/\ pc # "stopped"
     /\ ENABLED Interrupt
     /\ pc' = "stopped" => UNCHANGED <<is_collecting, lists, locals, history>>]_vars

\* Stopped in the middle of finalize: one of two images delivered, the Batch
\* still held.
C19_Witness ==
  /\ pc = "stopped"
  /\ Len(screenshots) = 2
  /\ Len(calls) = 1
  /\ calls[1].kind = "image"
  /\ delivered = <<1>>

\* C20: the image list and the path list have the same length and the path at
\* each position is the file the image at that position was read from.
C20_ParallelLists ==
  /\ Len(screenshots) = Len(screenshot_paths)
  /\ \A k \in 1..Len(screenshots) : screenshots[k].file = screenshot_paths[k]

\* Two stored captures, each with its own path.
C20_Witness ==
  /\ pc = "waitShift"
  /\ Len(screenshots) = 2
  /\ screenshots[2].cap = 2
  /\ screenshots[2].file = screenshot_paths[2]
  /\ screenshots[1].file = screenshot_paths[1]
  /\ screenshot_paths[1] # screenshot_paths[2]

====
